---- MODULE Spec2Model ----
(***************************************************************************)
(* A model of gopro-video-sync: the MP4 / GPMF box navigator, the sample   *)
(* table decoder, the 3-axis telemetry extractor and the stream alignment  *)
(* engine (resampling and cross-correlation offset).                       *)
(*                                                                         *)
(* A byte source is a sequence of bytes 0..255 and every reader is         *)
(* modelled on the bytes, as the code reads them.  Four-character codes    *)
(* are sequences of four character codes.                                  *)
(***************************************************************************)
EXTENDS Integers, Sequences, FiniteSets, TLC

VARIABLES
    f,       \* the byte source the call reads
    given,   \* the abstract input the byte source was laid out from
    args,    \* the arguments of the call under way
    pc,      \* where the call is: "start", "loop", "done", "raised"
    stack,   \* the navigator's activation records, innermost last
    result   \* what the call has produced so far / returned

vars == <<f, given, args, pc, stack, result>>

(***************************************************************************)
(* Bounds of the model.                                                    *)
(***************************************************************************)
\* boxes in a laid-out region, all levels together
MaxNodes == 4

\* entries of a time-to-sample table
MaxEntries == 3

\* run length of a time-to-sample entry
MaxRun == 3

\* Samples handed to the telemetry extractor
MaxSamples == 2

\* 3-axis elements in one Sample's data box
MaxElems == 2

\* sample count of a stream handed to the alignment engine
MaxCount == 3

\* duration of a stream handed to the alignment engine
MaxDuration == 3

\* length of an array handed to get_offset
MaxLen == 4

(***************************************************************************)
(* Byte access.                                                            *)
(***************************************************************************)
Min(a, b) == IF a < b THEN a ELSE b

\* bytes[a:b] of Python: clamped to the sequence, empty when a >= b
Slice(s, a, b) == SubSeq(s, a + 1, Min(b, Len(s)))

\* f.seek(pos); f.read(n): short at the end of the source, empty past it
Read(src, pos, n) == Slice(src, pos, pos + n)

RECURSIVE FromBytes(_)
\* int.from_bytes(bs): big-endian, unsigned, 0 for no bytes
FromBytes(bs) ==
    IF bs = <<>> THEN 0
    ELSE 256 * FromBytes(SubSeq(bs, 1, Len(bs) - 1)) + bs[Len(bs)]

\* bytes.decode("ascii") succeeds
IsAscii(bs) == \A i \in 1..Len(bs) : bs[i] < 128

\* n as four big-endian bytes (the layout of a size or count field)
ToBytes4(n) ==
    << (n \div 16777216) % 256, (n \div 65536) % 256, (n \div 256) % 256, n % 256 >>

\* n as two big-endian bytes
ToBytes2(n) == << (n \div 256) % 256, n % 256 >>

RECURSIVE Zeros(_)
Zeros(n) == IF n <= 0 THEN <<>> ELSE <<0>> \o Zeros(n - 1)

(***************************************************************************)
(* Four-character codes.                                                   *)
(***************************************************************************)
moov == <<109, 111, 111, 118>>
trak == <<116, 114, 97, 107>>
stbl == <<115, 116, 98, 108>>
stts == <<115, 116, 116, 115>>
stsz == <<115, 116, 115, 122>>
stco == <<115, 116, 99, 111>>
DEVC == <<68, 69, 86, 67>>
STRM == <<83, 84, 82, 77>>
SCAL == <<83, 67, 65, 76>>
ACCL == <<65, 67, 67, 76>>
GYRO == <<71, 89, 82, 79>>
STNM == <<83, 84, 78, 77>>
SIUN == <<83, 73, 85, 78>>

(***************************************************************************)
(* Box headers.                                                            *)
(***************************************************************************)
\* get_boxes: size = int.from_bytes(header[0:4])
OuterSize(header) == FromBytes(Slice(header, 0, 4))

\* get_boxes: key = header[4:8].decode("ascii")
OuterKey(header) == Slice(header, 4, 8)

\* get_gpmf_boxes: key = header[0:4].decode("ascii")
GpmfKey(header) == Slice(header, 0, 4)

\* get_gpmf_boxes: the type byte, 0 standing for None
GpmfType(header) == FromBytes(Slice(header, 4, 5))

GpmfStructSize(header) == FromBytes(Slice(header, 5, 6))

GpmfRepeat(header) == FromBytes(Slice(header, 6, 8))

\* get_gpmf_boxes: size = ceil((struct_size * repeat + 8) / 4) * 4
GpmfSize(header) ==
    ((GpmfStructSize(header) * GpmfRepeat(header) + 8 + 3) \div 4) * 4

\* the decodes of a header that raise UnicodeDecodeError
HeaderDecodes(layout, header) ==
    IF layout = "outer" THEN IsAscii(OuterKey(header))
    ELSE IsAscii(GpmfKey(header)) /\ IsAscii(Slice(header, 4, 5))

HeaderKey(layout, header) ==
    IF layout = "outer" THEN OuterKey(header) ELSE GpmfKey(header)

HeaderSize(layout, header) ==
    IF layout = "outer" THEN OuterSize(header) ELSE GpmfSize(header)

\* the Box / GPMFBox appended for a header read at offset
MakeBox(layout, header, offset) ==
    IF layout = "outer"
    THEN [key |-> OuterKey(header), offset |-> offset, size |-> OuterSize(header)]
    ELSE [key |-> GpmfKey(header), offset |-> offset, size |-> GpmfSize(header),
          type |-> GpmfType(header), struct_size |-> GpmfStructSize(header),
          repeat |-> GpmfRepeat(header)]

\* a matched box is descended into whatever its type
MayDescendAlways(layout, header) == TRUE

\* a matched, non-final box is descended into: always in the outer layout,
\* only "elif type is None" in the telemetry layout
MayDescend(layout, header) == layout = "outer" \/ GpmfType(header) = 0

(***************************************************************************)
(* Regions laid out as boxes.  A node is [tag, type, kids]: in the outer   *)
(* layout its payload is its children; in the telemetry layout a node with *)
(* no children and a non-zero type is a data box of one 2-byte element     *)
(* (padded to 4-byte alignment), any other node holds its children as      *)
(* struct_size 1 x repeat bytes, and type 0 marks a container.             *)
(***************************************************************************)
Layouts == {"outer", "gpmf"}

Tags(layout) == IF layout = "outer" THEN {moov, trak} ELSE {DEVC, STRM}

\* 's': a data box's element type in the telemetry layout
TypeS == 115

Types(layout) == IF layout = "outer" THEN {0} ELSE {0, TypeS}

IsData(layout, node) == layout = "gpmf" /\ node.kids = <<>> /\ node.type # 0

RECURSIVE SerNode(_, _), SerForest(_, _)
SerForest(layout, nodes) ==
    IF nodes = <<>> THEN <<>>
    ELSE SerNode(layout, Head(nodes)) \o SerForest(layout, Tail(nodes))

SerNode(layout, node) ==
    LET payload == IF IsData(layout, node) THEN <<0, 7, 0, 0>>
                   ELSE SerForest(layout, node.kids)
    IN  IF layout = "outer"
        THEN ToBytes4(8 + Len(payload)) \o node.tag \o payload
        ELSE node.tag
             \o (IF IsData(layout, node) THEN <<node.type, 2>> \o ToBytes2(1)
                 ELSE <<node.type, 1>> \o ToBytes2(Len(payload)))
             \o payload

NodeSize(layout, node) == Len(SerNode(layout, node))

RECURSIVE LeafSeqs(_, _)
\* the sequences of n childless boxes
LeafSeqs(layout, n) ==
    IF n = 0 THEN {<<>>}
    ELSE { <<[tag |-> t, type |-> IF layout = "outer" THEN 0 ELSE TypeS,
              kids |-> <<>>]>> \o rest :
             t \in Tags(layout), rest \in LeafSeqs(layout, n - 1) }

\* the boxes that make up k boxes with their children
NodesOfSize(layout, k) ==
    { [tag |-> t, type |-> ty, kids |-> ks] :
        t \in Tags(layout), ty \in Types(layout), ks \in LeafSeqs(layout, k - 1) }

RECURSIVE Forests(_, _)
\* the sibling sequences of at most n boxes in all
Forests(layout, n) ==
    {<<>>} \cup
    UNION { { <<nd>> \o rest :
                nd \in NodesOfSize(layout, k), rest \in Forests(layout, n - k) } :
            k \in 1..n }

RECURSIVE ForestCount(_)
ForestCount(nodes) ==
    IF nodes = <<>> THEN 0
    ELSE 1 + Len(Head(nodes).kids) + ForestCount(Tail(nodes))

\* tag paths of one to three segments
Paths(layout) ==
    UNION { [1..n -> Tags(layout)] : n \in {1, 2, 3} }

RECURSIVE OffsetOf(_, _, _)
\* where the i-th sibling starts in the laid-out region
OffsetOf(layout, nodes, i) ==
    IF i <= 1 THEN 0
    ELSE NodeSize(layout, Head(nodes)) + OffsetOf(layout, Tail(nodes), i - 1)

\* the damage a byte source may carry at its first header
Damages == {"none", "size0", "size4", "nonascii", "pasteof"}

SetByte(bs, i, v) == [bs EXCEPT ![i] = v]

Damaged(layout, bs, dmg) ==
    IF Len(bs) < 8 \/ dmg \in {"none", "pasteof"} THEN bs
    ELSE IF dmg = "size0"
         THEN SetByte(bs, IF layout = "outer" THEN 4 ELSE 6, 0)
    ELSE IF dmg = "size4"
         THEN SetByte(bs, IF layout = "outer" THEN 4 ELSE 8, IF layout = "outer" THEN 4 ELSE 1)
    ELSE SetByte(bs, 5, 195)

(***************************************************************************)
(* The boxes a path selects in a laid-out region, read off the tree.       *)
(***************************************************************************)
BoxOfNode(layout, node, base) ==
    LET bytes == SerNode(layout, node)
    IN  IF layout = "outer"
        THEN [key |-> node.tag, offset |-> base, size |-> Len(bytes)]
        ELSE [key |-> node.tag, offset |-> base, size |-> Len(bytes),
              type |-> node.type, struct_size |-> bytes[6],
              repeat |-> 256 * bytes[7] + bytes[8]]

RECURSIVE Selected(_, _, _, _)
Selected(layout, nodes, base, path) ==
    IF nodes = <<>> THEN <<>>
    ELSE LET n == Head(nodes)
             here == IF n.tag # path[1] THEN <<>>
                     ELSE IF Len(path) = 1 THEN <<BoxOfNode(layout, n, base)>>
                     ELSE IF layout = "gpmf" /\ n.type # 0 THEN <<>>
                     ELSE Selected(layout, n.kids, base + 8, Tail(path))
         IN  here \o Selected(layout, Tail(nodes), base + NodeSize(layout, n), path)

(***************************************************************************)
(* get_boxes / get_gpmf_boxes, one loop iteration per step.                *)
(* A frame is one activation: its cursor (offset), the region's end, the   *)
(* path left, and the size of the box it is descending into.               *)
(***************************************************************************)
\* results kept while a call appends without end
MaxBoxes == 2 * MaxNodes

Top == stack[Len(stack)]

Header == Read(f, Top.offset, 8)

Running == pc = "loop" /\ stack # <<>>

InLoop == Running /\ Top.offset < Top.end

NavInit ==
    \E layout \in Layouts :
    \E forest \in Forests(layout, MaxNodes) :
    \E path \in Paths(layout) :
    \E r \in {0, Len(forest)} :
    \E dmg \in Damages :
        /\ dmg # "none" => (r = 0 /\ ForestCount(forest) \in 1..2)
        /\ given = [forest |-> forest, region |-> r, damage |-> dmg]
        /\ f = Damaged(layout, SerForest(layout, forest), dmg)
        /\ args = [layout |-> layout,
                   offset |-> IF r = 0 THEN 0 ELSE OffsetOf(layout, forest, r),
                   size |-> IF r = 0
                            THEN Len(SerForest(layout, forest))
                                 + (IF dmg = "pasteof" THEN 8 ELSE 0)
                            ELSE NodeSize(layout, forest[r]),
                   path |-> path]
        /\ pc = "start"
        /\ stack = <<>>
        /\ result = <<>>

\* boxes = []; end = offset + size; f.seek(offset)
NavCall ==
    /\ pc = "start"
    /\ pc' = "loop"
    /\ stack' = << [offset |-> args.offset, end |-> args.offset + args.size,
                    path |-> args.path, size |-> 0] >>
    /\ result' = <<>>
    /\ UNCHANGED <<f, given, args>>

\* header[...].decode("ascii") raises
NavRaise ==
    /\ InLoop
    /\ ~HeaderDecodes(args.layout, Header)
    /\ pc' = "raised"
    /\ stack' = <<>>
    /\ result' = "UnicodeDecodeError"
    /\ UNCHANGED <<f, given, args>>

\* key == box_path[0] and len(box_path) == 1: boxes += [Box(...)]; offset += size
NavRecord ==
    /\ InLoop
    /\ HeaderDecodes(args.layout, Header)
    /\ HeaderKey(args.layout, Header) = Top.path[1]
    /\ Len(Top.path) = 1
    /\ Len(result) < MaxBoxes
    /\ result' = Append(result, MakeBox(args.layout, Header, Top.offset))
    /\ stack' = [stack EXCEPT ![Len(stack)].offset = @ + HeaderSize(args.layout, Header)]
    /\ UNCHANGED <<f, given, args, pc>>

\* key == box_path[0], path not exhausted: recurse on (offset + 8, size - 8, box_path[1:])
NavDescend ==
    /\ InLoop
    /\ HeaderDecodes(args.layout, Header)
    /\ HeaderKey(args.layout, Header) = Top.path[1]
    /\ Len(Top.path) > 1
    /\ MayDescend(args.layout, Header)
    /\ LET size == HeaderSize(args.layout, Header)
       IN  stack' = Append([stack EXCEPT ![Len(stack)].size = size],
                           [offset |-> Top.offset + 8,
                            end |-> Top.offset + 8 + (size - 8),
                            path |-> Tail(Top.path), size |-> 0])
    /\ UNCHANGED <<f, given, args, pc, result>>

\* no match (or a matched telemetry box that is no container): offset += size
NavSkip ==
    /\ InLoop
    /\ HeaderDecodes(args.layout, Header)
    /\ \/ HeaderKey(args.layout, Header) # Top.path[1]
       \/ Len(Top.path) > 1 /\ ~MayDescend(args.layout, Header)
    /\ stack' = [stack EXCEPT ![Len(stack)].offset = @ + HeaderSize(args.layout, Header)]
    /\ UNCHANGED <<f, given, args, pc, result>>

\* the loop ends: return boxes; the caller does offset += size; f.seek(offset)
NavReturn ==
    /\ Running
    /\ Top.offset >= Top.end
    /\ IF Len(stack) = 1
       THEN pc' = "done" /\ stack' = <<>>
       ELSE /\ pc' = pc
            /\ stack' = [SubSeq(stack, 1, Len(stack) - 1)
                           EXCEPT ![Len(stack) - 1] =
                             [@ EXCEPT !.offset = @ + stack[Len(stack) - 1].size,
                                       !.size = 0]]
    /\ UNCHANGED <<f, given, args, result>>

NavNext == NavCall \/ NavRaise \/ NavRecord \/ NavDescend \/ NavSkip \/ NavReturn

SpecNav == NavInit /\ [][NavNext]_vars

\* C1: on a region laid out as boxes, get_boxes and get_gpmf_boxes raise
\* nothing and return exactly the boxes the path selects, segment by segment:
\* all same-tagged siblings at every level, no box under a sibling of another
\* tag, and in the telemetry layout nothing under a matched box whose type is
\* not 0; the empty list when nothing matches.
NavReturnsSelected ==
    given.damage = "none" =>
        /\ pc # "raised"
        /\ pc = "done" =>
             result = Selected(args.layout,
                               IF given.region = 0 THEN given.forest
                               ELSE <<given.forest[given.region]>>,
                               args.offset, args.path)

\* a telemetry search that returned a box from under a container while a
\* same-tagged sibling that is no container holds a box of the wanted tag
NavReturnsSelectedWitness ==
    /\ pc = "done"
    /\ given.damage = "none"
    /\ args.layout = "gpmf"
    /\ Len(args.path) = 2
    /\ Len(result) = 1
    /\ \E i \in 1..Len(given.forest) :
         /\ given.forest[i].tag = args.path[1]
         /\ given.forest[i].type # 0
         /\ given.forest[i].kids # <<>>
         /\ given.forest[i].kids[1].tag = args.path[2]

\* C10: whenever the loop is about to run an iteration, the header at the
\* cursor gives a box size that moves the cursor forward.
NavCursorAdvances ==
    (InLoop /\ HeaderDecodes(args.layout, Header))
        => HeaderSize(args.layout, Header) > 0

(***************************************************************************)
(* get_boxes / get_gpmf_boxes as their callers use them: the value         *)
(* returned on a source whose headers decode and whose boxes have a        *)
(* positive size (the loop of the step form above, run to its end).        *)
(***************************************************************************)
RECURSIVE GetBoxes(_, _, _, _, _)
GetBoxes(layout, src, offset, end, path) ==
    IF offset >= end THEN <<>>
    ELSE LET header == Read(src, offset, 8)
             size == HeaderSize(layout, header)
             here == IF HeaderKey(layout, header) # path[1] THEN <<>>
                     ELSE IF Len(path) = 1 THEN <<MakeBox(layout, header, offset)>>
                     ELSE IF MayDescend(layout, header)
                          THEN GetBoxes(layout, src, offset + 8,
                                        offset + 8 + (size - 8), Tail(path))
                     ELSE <<>>
         IN  here \o GetBoxes(layout, src, offset + size, end, path)

get_boxes(src, offset, size, path) ==
    GetBoxes("outer", src, offset, offset + size, path)

get_gpmf_boxes(src, offset, size, path) ==
    GetBoxes("gpmf", src, offset, offset + size, path)

(***************************************************************************)
(* get_samples.                                                            *)
(***************************************************************************)
RECURSIVE Repeat(_, _)
\* [v] * n
Repeat(v, n) == IF n <= 0 THEN <<>> ELSE <<v>> \o Repeat(v, n - 1)

\* int.from_bytes(f.read(4)) with the file position at pos
ReadU32(src, pos) == FromBytes(Read(src, pos, 4))

RECURSIVE SttsDurations(_, _, _)
\* for _ in range(num_entries): sample_durations += [sample_duration] * sample_count
SttsDurations(src, pos, n) ==
    IF n = 0 THEN <<>>
    ELSE Repeat(ReadU32(src, pos + 4), ReadU32(src, pos))
         \o SttsDurations(src, pos + 8, n - 1)

RECURSIVE ReadU32s(_, _, _)
\* for _ in range(num_entries): xs.append(int.from_bytes(f.read(4)))
ReadU32s(src, pos, n) ==
    IF n = 0 THEN <<>>
    ELSE <<ReadU32(src, pos)>> \o ReadU32s(src, pos + 4, n - 1)

\* the "stts" part: f.seek(stts.offset + 12), the count, the run-length pairs
SampleDurations(src, box) ==
    SttsDurations(src, box.offset + 16, ReadU32(src, box.offset + 12))

\* the "stsz" part: the global size, the count, the individual sizes
SampleSizes(src, box) ==
    LET sample_size == ReadU32(src, box.offset + 12)
        num_entries == ReadU32(src, box.offset + 16)
    IN  IF sample_size # 0 THEN Repeat(sample_size, num_entries)
        ELSE ReadU32s(src, box.offset + 20, num_entries)

\* the "stco" part: the count, the offsets
SampleOffsets(src, box) ==
    ReadU32s(src, box.offset + 16, ReadU32(src, box.offset + 12))

\* the cumulative time delta starts at the first duration
FirstTimeDeltaOffByOne(durations) == IF durations = <<>> THEN 0 ELSE durations[1]

\* time_delta = 0
FirstTimeDelta(durations) == 0

RECURSIVE Compile(_, _, _, _, _)
\* for i in range(len(sample_durations)): samples.append(Sample(...)); time_delta += ...
Compile(durations, offsets, sizes, i, time_delta) ==
    IF i > Len(durations) THEN <<>>
    ELSE <<[time_delta |-> time_delta, duration |-> durations[i],
            offset |-> offsets[i], size |-> sizes[i]]>>
         \o Compile(durations, offsets, sizes, i + 1, time_delta + durations[i])

\* the three tables of the sample table box, located with get_boxes(...)[0]
StblTable(src, box, tag) == get_boxes(src, box.offset, box.size, <<stbl, tag>>)

get_samples(src, box) ==
    IF \E tag \in {stts, stsz, stco} : StblTable(src, box, tag) = <<>>
    THEN [kind |-> "IndexError"]
    ELSE LET durations == SampleDurations(src, StblTable(src, box, stts)[1])
             sizes == SampleSizes(src, StblTable(src, box, stsz)[1])
             offsets == SampleOffsets(src, StblTable(src, box, stco)[1])
         IN  IF Len(offsets) < Len(durations) \/ Len(sizes) < Len(durations)
             THEN [kind |-> "IndexError"]
             ELSE [kind |-> "ok",
                   samples |-> Compile(durations, offsets, sizes, 1,
                                       FirstTimeDelta(durations))]

(***************************************************************************)
(* Sample tables laid out as bytes.                                        *)
(***************************************************************************)
RECURSIVE SerPairs(_)
SerPairs(table) ==
    IF table = <<>> THEN <<>>
    ELSE ToBytes4(Head(table)[1]) \o ToBytes4(Head(table)[2]) \o SerPairs(Tail(table))

RECURSIVE SerU32s(_)
SerU32s(xs) ==
    IF xs = <<>> THEN <<>> ELSE ToBytes4(Head(xs)) \o SerU32s(Tail(xs))

\* an outer box: size, tag, payload
OuterBox(tag, payload) == ToBytes4(8 + Len(payload)) \o tag \o payload

SttsBox(table) ==
    OuterBox(stts, Zeros(4) \o ToBytes4(Len(table)) \o SerPairs(table))

StszBox(global, n) ==
    OuterBox(stsz, Zeros(4) \o ToBytes4(global) \o ToBytes4(n)
                   \o (IF global = 0 THEN SerU32s([i \in 1..n |-> 100 + i]) ELSE <<>>))

StcoBox(n) ==
    OuterBox(stco, Zeros(4) \o ToBytes4(n) \o SerU32s([i \in 1..n |-> 1000 * i]))

StblBox(t) ==
    OuterBox(stbl, SttsBox(t.stts) \o StszBox(t.global, t.nsizes) \o StcoBox(t.noffsets))

RECURSIVE Expand(_)
\* the run-length expansion of a time-to-sample table
Expand(table) ==
    IF table = <<>> THEN <<>>
    ELSE Repeat(Head(table)[2], Head(table)[1]) \o Expand(Tail(table))

\* the duration of the i-th entry, in the two rotations drawn
DurationAt(rot, i) == <<10, 20, 5, 40>>[((i + rot - 2) % 4) + 1]

SttsTables ==
    UNION { { [i \in 1..n |-> <<runs[i], DurationAt(rot, i)>>] :
                runs \in [1..n -> 0..MaxRun], rot \in {1, 2} } :
            n \in 0..MaxEntries }

\* how the size and offset tables' counts stand to the number of samples
Mismatches == { <<0, 0>>, <<-1, 0>>, <<0, -1>>, <<1, 0>>, <<0, 1>>, <<1, 1>> }

SamplesInit ==
    \E table \in SttsTables :
    \E mm \in Mismatches :
    \E global \in {0, 7} :
        LET total == Len(Expand(table))
            t == [stts |-> table, global |-> global,
                  nsizes |-> total + mm[1], noffsets |-> total + mm[2]]
        IN  /\ total + mm[1] >= 0
            /\ total + mm[2] >= 0
            /\ global # 0 => mm = <<0, 0>>
            /\ given = t
            /\ f = OuterBox(trak, <<>>) \o StblBox(t)
            /\ args = [stbl |-> [key |-> stbl, offset |-> 8, size |-> Len(StblBox(t))]]
            /\ pc = "start"
            /\ stack = <<>>
            /\ result = <<>>

\* get_samples returns the Sample list
SamplesReturn ==
    /\ pc = "start"
    /\ get_samples(f, args.stbl).kind = "ok"
    /\ pc' = "done"
    /\ result' = get_samples(f, args.stbl).samples
    /\ UNCHANGED <<f, given, args, stack>>

\* get_samples raises
SamplesRaise ==
    /\ pc = "start"
    /\ get_samples(f, args.stbl).kind # "ok"
    /\ pc' = "raised"
    /\ result' = get_samples(f, args.stbl).kind
    /\ UNCHANGED <<f, given, args, stack>>

SamplesNext == SamplesReturn \/ SamplesRaise

SpecSamples == SamplesInit /\ [][SamplesNext]_vars

\* C2: get_samples raises whenever the three decoded lists do not all have
\* the same length, whether the size or offset list is shorter or longer.
SamplesMismatchRaises ==
    (pc # "start" /\ (given.nsizes # Len(Expand(given.stts))
                      \/ given.noffsets # Len(Expand(given.stts))))
        => pc = "raised"

\* C3: with matching tables get_samples returns one Sample per unit of run
\* length, Sample i carrying the i-th duration of the run-length expansion,
\* the first time_delta 0 and each next one the previous plus its duration.
SamplesExpandAndAccumulate ==
    (pc # "start" /\ given.nsizes = Len(Expand(given.stts))
                  /\ given.noffsets = Len(Expand(given.stts)))
        => /\ pc = "done"
           /\ Len(result) = Len(Expand(given.stts))
           /\ \A i \in 1..Len(result) : result[i].duration = Expand(given.stts)[i]
           /\ result # <<>> => result[1].time_delta = 0
           /\ \A i \in 1..(Len(result) - 1) :
                result[i + 1].time_delta = result[i].time_delta + result[i].duration

\* the table [(2,10),(3,20),(1,5)] decoded to deltas [0,10,20,40,60,80]
SamplesExpandWitness ==
    /\ pc = "done"
    /\ given.stts = << <<2, 10>>, <<3, 20>>, <<1, 5>> >>
    /\ [i \in 1..Len(result) |-> result[i].duration] = <<10, 10, 20, 20, 20, 5>>
    /\ [i \in 1..Len(result) |-> result[i].time_delta] = <<0, 10, 20, 40, 60, 80>>

(***************************************************************************)
(* get_3axis_sensor_data, one Sample per step.                             *)
(***************************************************************************)
\* int.from_bytes(bs, signed=True)
FromBytesSigned(bs) ==
    LET v == FromBytes(bs)
        half == IF Len(bs) = 2 THEN 32768 ELSE IF Len(bs) = 1 THEN 128 ELSE 0
    IN  IF Len(bs) > 0 /\ v >= half THEN v - 2 * half ELSE v

\* the Sample lacks the quantity and is passed over
OnMissingQuantitySkip == [kind |-> "skip"]

\* if strm is None: raise ValueError(...)
OnMissingQuantity == [kind |-> "ValueError"]

RECURSIVE FirstWith(_, _, _, _)
\* for box in strm_boxes: if get_gpmf_boxes(f, box.offset, box.size, ["STRM", key]): break
FirstWith(src, boxes, key, i) ==
    IF i > Len(boxes) THEN <<>>
    ELSE IF get_gpmf_boxes(src, boxes[i].offset, boxes[i].size, <<STRM, key>>) # <<>>
         THEN <<boxes[i]>>
    ELSE FirstWith(src, boxes, key, i + 1)

\* the first "STRM" of the Sample's payload that holds the quantity (as a
\* one-element sequence), or None (the empty sequence)
SelectStrm(src, sample, key) ==
    FirstWith(src, get_gpmf_boxes(src, sample.offset, sample.size, <<DEVC, STRM>>),
              key, 1)

\* the boxes [0] is taken of, in a selected stream container
StrmBox(src, strm, tag) == get_gpmf_boxes(src, strm.offset, strm.size, <<STRM, tag>>)

\* one element: three signed 16-bit values, each divided by the scale divisor;
\* a quotient is kept as <<dividend, divisor>>
Triple(src, pos, scale_divisor) ==
    [a \in 1..3 |-> <<FromBytesSigned(Read(src, pos + 2 * (a - 1), 2)), scale_divisor>>]

RECURSIVE Triples(_, _, _, _)
Triples(src, pos, n, scale_divisor) ==
    IF n = 0 THEN <<>>
    ELSE <<Triple(src, pos, scale_divisor)>> \o Triples(src, pos + 6, n - 1, scale_divisor)

\* f.seek(box.offset + 5); length = read(1) * read(2); the bytes that follow
TextBytes(src, box) ==
    Read(src, box.offset + 8,
         FromBytes(Read(src, box.offset + 5, 1)) * FromBytes(Read(src, box.offset + 6, 2)))

\* the unit characters: 0xB0, 0xB2, 0xB3, 0xB5 become the glyphs of the same
\* code points, anything else is decoded as ASCII
UnitsDecode(bs) == \A i \in 1..Len(bs) : bs[i] \in {176, 178, 179, 181} \/ bs[i] < 128

\* what one pass of the loop body does to the accumulators (acc), or the
\* exception it raises
ProcessSample(src, sample, key, acc) ==
    LET found == SelectStrm(src, sample, key)
        strm == found[1]
    IN  IF found = <<>> THEN OnMissingQuantity
        ELSE IF StrmBox(src, strm, SCAL) = <<>> THEN [kind |-> "IndexError"]
        ELSE
        LET scale_divisor == FromBytesSigned(Read(src, StrmBox(src, strm, SCAL)[1].offset + 8, 2))
            sensor_box == StrmBox(src, strm, key)[1]
            num_samples == FromBytes(Read(src, sensor_box.offset + 6, 2))
        IN  IF num_samples > 0 /\ scale_divisor = 0 THEN [kind |-> "ZeroDivisionError"]
            ELSE IF acc.name = <<>> /\ StrmBox(src, strm, STNM) = <<>>
                 THEN [kind |-> "IndexError"]
            ELSE IF acc.name = <<>> /\ ~IsAscii(TextBytes(src, StrmBox(src, strm, STNM)[1]))
                 THEN [kind |-> "UnicodeDecodeError"]
            ELSE IF acc.units = <<>> /\ StrmBox(src, strm, SIUN) = <<>>
                 THEN [kind |-> "IndexError"]
            ELSE IF acc.units = <<>> /\ ~UnitsDecode(TextBytes(src, StrmBox(src, strm, SIUN)[1]))
                 THEN [kind |-> "UnicodeDecodeError"]
            ELSE [kind |-> "ok",
                  acc |-> [data |-> acc.data
                                    \o Triples(src, sensor_box.offset + 8, num_samples,
                                               scale_divisor),
                           total_duration |-> acc.total_duration + sample.duration,
                           total_sample_count |-> acc.total_sample_count + num_samples,
                           name |-> IF acc.name = <<>>
                                    THEN TextBytes(src, StrmBox(src, strm, STNM)[1])
                                    ELSE acc.name,
                           units |-> IF acc.units = <<>>
                                     THEN TextBytes(src, StrmBox(src, strm, SIUN)[1])
                                     ELSE acc.units,
                           next |-> acc.next + 1]]

(***************************************************************************)
(* Telemetry payloads laid out as bytes.                                   *)
(***************************************************************************)
\* a telemetry data box: tag, type, struct_size, repeat, payload padded to 4
GpmfBox(tag, type, struct_size, repeat, payload) ==
    tag \o <<type, struct_size>> \o ToBytes2(repeat) \o payload
        \o Zeros((4 - (Len(payload) % 4)) % 4)

\* a telemetry container: type 0, its children as struct_size 1 x repeat bytes
GpmfContainer(tag, payload) == GpmfBox(tag, 0, 1, Len(payload), payload)

\* v as a signed 16-bit big-endian value
ToBytesS16(v) == ToBytes2(IF v < 0 THEN v + 65536 ELSE v)

RECURSIVE RawElems(_)
\* n raw elements, the j-th being (j, -j, 256 + j)
RawElems(n) ==
    IF n = 0 THEN <<>>
    ELSE RawElems(n - 1) \o ToBytesS16(n) \o ToBytesS16(-n) \o ToBytesS16(256 + n)

\* a stream container of quantity q with n elements
StrmOf(q, n, scale, withScal) ==
    GpmfContainer(STRM,
        (IF withScal THEN GpmfBox(SCAL, TypeS, 2, 1, ToBytesS16(scale)) ELSE <<>>)
        \o GpmfBox(STNM, 99, 1, 4, q)
        \o GpmfBox(SIUN, 99, 4, 1, <<109, 47, 115, 178>>)
        \o GpmfBox(q, TypeS, 6, n, RawElems(n)))

Other(q) == IF q = ACCL THEN GYRO ELSE ACCL

PayloadKinds == {"one", "two", "absent", "empty", "noscal", "zeroscale"}

\* a Sample's payload holding (or not) quantity q
Payload(kind, q, n) ==
    GpmfContainer(DEVC,
        IF kind = "one" THEN StrmOf(q, n, 4, TRUE)
        ELSE IF kind = "two" THEN StrmOf(Other(q), 1, 2, TRUE) \o StrmOf(q, n, -4, TRUE)
        ELSE IF kind = "absent" THEN StrmOf(Other(q), n, 4, TRUE)
        ELSE IF kind = "noscal" THEN StrmOf(q, n, 4, FALSE)
        ELSE IF kind = "zeroscale" THEN StrmOf(q, n, 0, TRUE)
        ELSE <<>>)

PayloadSpecs ==
    { p \in [kind : PayloadKinds, n : 0..MaxElems] :
        p.kind \in {"empty", "noscal"} => p.n = 0 }

RECURSIVE SerPayloads(_, _)
SerPayloads(ps, q) ==
    IF ps = <<>> THEN <<>>
    ELSE Payload(Head(ps).kind, q, Head(ps).n) \o SerPayloads(Tail(ps), q)

RECURSIVE SamplesOf(_, _, _, _)
\* the Samples that locate the payloads, laid out from byte `offset` on
SamplesOf(ps, q, offset, time_delta) ==
    IF ps = <<>> THEN <<>>
    ELSE LET size == Len(Payload(Head(ps).kind, q, Head(ps).n))
             duration == 1000 + Len(ps)
         IN  <<[time_delta |-> time_delta, duration |-> duration,
                offset |-> offset, size |-> size]>>
             \o SamplesOf(Tail(ps), q, offset + size, time_delta + duration)

HasQuantity(p) == p.kind \notin {"absent", "empty"}

SensorInit ==
    \E q \in {ACCL, GYRO} :
    \E n \in 0..MaxSamples :
    \E ps \in [1..n -> PayloadSpecs] :
        /\ given = ps
        /\ f = OuterBox(moov, <<>>) \o SerPayloads(ps, q)
        /\ args = [samples |-> SamplesOf(ps, q, 8, 0), sensor_key |-> q]
        /\ pc = "start"
        /\ stack = <<>>
        /\ result = <<>>

\* data = []; total_duration = 0; total_sample_count = 0; name = ""; units = ""
SensorCall ==
    /\ pc = "start"
    /\ pc' = "loop"
    /\ result' = [data |-> <<>>, total_duration |-> 0, total_sample_count |-> 0,
                  name |-> <<>>, units |-> <<>>, next |-> 1]
    /\ UNCHANGED <<f, given, args, stack>>

\* one pass of "for sample in samples" that completes
SensorStep ==
    /\ pc = "loop"
    /\ result.next <= Len(args.samples)
    /\ LET out == ProcessSample(f, args.samples[result.next], args.sensor_key, result)
       IN  /\ out.kind \in {"ok", "skip"}
           /\ result' = IF out.kind = "ok" THEN out.acc
                        ELSE [result EXCEPT !.next = @ + 1]
    /\ UNCHANGED <<f, given, args, pc, stack>>

\* one pass of "for sample in samples" that raises: the locals are gone
SensorRaise ==
    /\ pc = "loop"
    /\ result.next <= Len(args.samples)
    /\ LET out == ProcessSample(f, args.samples[result.next], args.sensor_key, result)
       IN  /\ out.kind \notin {"ok", "skip"}
           /\ result' = out.kind
    /\ pc' = "raised"
    /\ UNCHANGED <<f, given, args, stack>>

\* return Sensor3AxisStream(sensor_key, total_duration, total_sample_count, name, units, data)
SensorReturn ==
    /\ pc = "loop"
    /\ result.next > Len(args.samples)
    /\ pc' = "done"
    /\ result' = [key |-> args.sensor_key, total_duration |-> result.total_duration,
                  total_sample_count |-> result.total_sample_count,
                  name |-> result.name, units |-> result.units, data |-> result.data]
    /\ UNCHANGED <<f, given, args, stack>>

SensorNext == SensorCall \/ SensorStep \/ SensorRaise \/ SensorReturn

SpecSensor == SensorInit /\ [][SensorNext]_vars

\* C4: when some Sample of the sequence, the first or a later one, has no
\* stream container holding the requested quantity, get_3axis_sensor_data
\* never returns a stream, and when it stops it has raised an error that
\* carries none of the triples, duration or count gathered so far.
SensorMissingQuantityFails ==
    (\E i \in 1..Len(given) : ~HasQuantity(given[i]))
        => /\ pc # "done"
           /\ ~(pc = "loop" /\ result.next > Len(given))
           /\ pc = "raised" =>
                result \in {"ValueError", "IndexError", "ZeroDivisionError",
                            "UnicodeDecodeError"}

\* the second Sample lacks the quantity after the first one gave elements:
\* the call has raised ValueError
SensorMissingQuantityWitness ==
    /\ pc = "raised"
    /\ result = "ValueError"
    /\ Len(given) = 2
    /\ given[1].kind = "one" /\ given[1].n = 2
    /\ given[2].kind = "absent"

\* the stream get_3axis_sensor_data returns holds as many elements as it counts
SensorStreamCountsData ==
    pc = "done" => Len(result.data) = result.total_sample_count

(***************************************************************************)
(* The alignment engine.  A stream is [key, duration, sample_count, name,  *)
(* units, data], the fields regularize_stream_timescale reads and the      *)
(* order it constructs them in.  Array values are floats; the model draws  *)
(* small whole values, on which the double arithmetic of the code is exact *)
(* (products and sums of small integers and halves), and the quotients of  *)
(* the resampling are computed as exact fractions, which within the bounds *)
(* of the model round and truncate as the doubles do.  A quotient that is  *)
(* returned is kept as <<dividend, divisor>>.                              *)
(***************************************************************************)
\* round(num / den) of Python: to nearest, ties to even; num >= 0, den > 0
RoundHalfEven(num, den) ==
    LET q == num \div den
        r == num % den
    IN  IF 2 * r > den THEN q + 1
        ELSE IF 2 * r < den THEN q
        ELSE IF q % 2 = 0 THEN q ELSE q + 1

\* length = stream1.sample_count if same_length
\*          else int(stream1.sample_count / stream1.duration * stream2.duration)
OutputLength(stream1, stream2, same_length) ==
    IF same_length THEN stream1.sample_count
    ELSE (stream1.sample_count * stream2.duration) \div stream1.duration

\* the index is not clamped to the last valid one
ClampNot(index, stream2) == index

\* if index > stream2.sample_count - 1: index = stream2.sample_count - 1
Clamp(index, stream2) ==
    IF index > stream2.sample_count - 1 THEN stream2.sample_count - 1 ELSE index

\* index = round(((d1 / c1) * i / d2) * c2), then clamped
ResampleIndex(stream1, stream2, i) ==
    Clamp(RoundHalfEven(stream1.duration * i * stream2.sample_count,
                        stream1.sample_count * stream2.duration),
          stream2)

\* list[index] of Python: a negative index counts from the end
PyIndexOk(xs, index) ==
    IF index < 0 THEN -index <= Len(xs) ELSE index < Len(xs)

PyIndex(xs, index) ==
    IF index < 0 THEN xs[Len(xs) + index + 1] ELSE xs[index + 1]

regularize_stream_timescale(stream1, stream2, same_length) ==
    IF ~same_length /\ stream1.duration = 0 THEN [kind |-> "ZeroDivisionError"]
    ELSE LET length == OutputLength(stream1, stream2, same_length)
         IN  IF length > 0 /\ (stream1.sample_count = 0 \/ stream2.duration = 0)
             THEN [kind |-> "ZeroDivisionError"]
             ELSE IF \E i \in 0..(length - 1) :
                       ~PyIndexOk(stream2.data, ResampleIndex(stream1, stream2, i))
             THEN [kind |-> "IndexError"]
             ELSE [kind |-> "ok",
                   stream |->
                     [key |-> stream2.key,
                      duration |-> stream1.duration,
                      sample_count |-> stream1.sample_count,
                      name |-> stream2.name,
                      units |-> stream2.units,
                      data |-> [i \in 1..length |->
                                  PyIndex(stream2.data,
                                          ResampleIndex(stream1, stream2, i - 1))]]]

RECURSIVE Insert(_, _)
Insert(x, sorted) ==
    IF sorted = <<>> THEN <<x>>
    ELSE IF x <= Head(sorted) THEN <<x>> \o sorted
    ELSE <<Head(sorted)>> \o Insert(x, Tail(sorted))

RECURSIVE Sort(_)
Sort(xs) == IF xs = <<>> THEN <<>> ELSE Insert(Head(xs), Sort(Tail(xs)))

\* twice np.median(xs), xs not empty: the middle value, or the mean of the two
Median2(xs) ==
    LET sorted == Sort(xs)
        n == Len(xs)
    IN  IF n % 2 = 1 THEN 2 * sorted[(n + 1) \div 2]
        ELSE sorted[n \div 2] + sorted[n \div 2 + 1]

\* twice np.concatenate((median_padding, xs, median_padding)), padding of length n
Padded2(xs, n) ==
    Repeat(Median2(xs), n) \o [i \in 1..Len(xs) |-> 2 * xs[i]] \o Repeat(Median2(xs), n)

RECURSIVE Dot(_, _, _, _, _)
\* sum of a[offa + i] * b[offb + i] for i = 1..n
Dot(a, b, offa, offb, n) ==
    IF n = 0 THEN 0
    ELSE a[offa + n] * b[offb + n] + Dot(a, b, offa, offb, n - 1)

\* scipy.signal.correlate(a, b, mode="valid"): the lags at which the shorter
\* array lies wholly inside the longer one
Correlate(a, b) ==
    IF Len(a) >= Len(b)
    THEN [k \in 1..(Len(a) - Len(b) + 1) |-> Dot(a, b, k - 1, 0, Len(b))]
    ELSE [k \in 1..(Len(b) - Len(a) + 1) |-> Dot(a, b, 0, Len(b) - Len(a) - (k - 1), Len(a))]

\* np.argmax(c): the first index (from 0) of the greatest value
ArgMax(c) ==
    (CHOOSE k \in 1..Len(c) :
        /\ \A j \in 1..Len(c) : c[j] <= c[k]
        /\ \A j \in 1..(k - 1) : c[j] < c[k]) - 1

\* the lag is converted as in get_stream_offset
OffsetShiftLessOne(argmax, size) == -1 * (argmax - (size - 1))

\* get_offset: shift = -1 * (np.argmax(corr) - data_2.size)
OffsetShift(argmax, size) == -1 * (argmax - size)

\* get_stream_offset: shift = -1 * (np.argmax(corr) - (len(magnitudes1) - 1))
StreamShift(argmax, len) == -1 * (argmax - (len - 1))

\* get_offset on one-dimensional float arrays.  With data_1 empty np.median
\* is nan (a warning, no error), every correlation value is nan and np.argmax
\* gives 0; with data_2 empty the correlation raises ValueError.
get_offset(data_1, data_2, sample_rate) ==
    IF data_2 = <<>> THEN [kind |-> "ValueError"]
    ELSE LET argmax == IF data_1 = <<>> THEN 0
                       ELSE ArgMax(Correlate(Padded2(data_1, Len(data_2)), data_2))
         IN  [kind |-> "ok",
              offset |-> <<OffsetShift(argmax, Len(data_2)), sample_rate>>]

\* (array * array).sum(axis=1) on an n x 3 array
Magnitudes(data) ==
    [i \in 1..Len(data) |->
        data[i][1] * data[i][1] + data[i][2] * data[i][2] + data[i][3] * data[i][3]]

\* get_stream_offset.  np.array([]) has one dimension, so sum(axis=1) raises
\* AxisError for a stream, or a resampled stream, without data.
get_stream_offset(stream1, stream2) ==
    LET reg == regularize_stream_timescale(stream1, stream2, FALSE)
    IN  IF reg.kind # "ok" THEN reg
        ELSE IF stream1.data = <<>> \/ reg.stream.data = <<>> THEN [kind |-> "AxisError"]
        ELSE LET magnitudes1 == Magnitudes(stream1.data)
                 magnitudes2 == Magnitudes(reg.stream.data)
                 corr == Correlate(Padded2(magnitudes1, Len(magnitudes1)), magnitudes2)
                 shift == StreamShift(ArgMax(corr), Len(magnitudes1))
             IN  [kind |-> "ok",
                  offset |-> <<stream1.duration * shift, stream1.sample_count>>]

(***************************************************************************)
(* The inputs of the alignment engine.                                     *)
(***************************************************************************)
SeqsUpTo(S, n) == UNION { [1..k -> S] : k \in 0..n }

\* a stream as get_3axis_sensor_data builds it: as many elements as it counts
StreamOf(data, duration) ==
    [key |-> ACCL, duration |-> duration, sample_count |-> Len(data),
     name |-> ACCL, units |-> <<109, 47, 115, 178>>, data |-> data]

\* a stream of c elements, each different from the others
Ramp(c) == [j \in 1..c |-> <<j, 0, 0>>]

Elements == { <<0, 0, 0>>, <<1, 0, 0>> }

\* data_1 delayed by k samples: the last k dropped, the front filled with the
\* first value
ShiftRight(xs, k) ==
    [i \in 1..Len(xs) |-> IF i <= k THEN xs[1] ELSE xs[i - k]]

AlignInit ==
    /\ pc = "start"
    /\ stack = <<>>
    /\ result = <<>>
    /\ f = <<>>
    /\ given = <<>>
    /\ \/ \E c1 \in 0..MaxCount, d1 \in 0..MaxDuration,
             c2 \in 0..MaxCount, d2 \in 0..MaxDuration, same \in BOOLEAN :
             args = [op |-> "regularize_stream_timescale",
                     stream1 |-> StreamOf(Ramp(c1), d1),
                     stream2 |-> StreamOf(Ramp(c2), d2),
                     same_length |-> same]
       \/ \E data1 \in SeqsUpTo(Elements, MaxCount), d1 \in 0..MaxDuration,
             data2 \in SeqsUpTo(Elements, MaxCount), d2 \in 0..MaxDuration :
             args = [op |-> "get_stream_offset",
                     stream1 |-> StreamOf(data1, d1),
                     stream2 |-> StreamOf(data2, d2)]
       \/ \E data1 \in SeqsUpTo({0, 1, 2}, MaxLen), rate \in {1, 200} :
          \E data2 \in { ShiftRight(data1, k) : k \in 0..(Len(data1) - 1) }
                       \cup SeqsUpTo({1, 2}, 2) :
             args = [op |-> "get_offset", data_1 |-> data1, data_2 |-> data2,
                     sample_rate |-> rate]

\* what the call of args.op gives
Outcome ==
    IF args.op = "regularize_stream_timescale"
    THEN regularize_stream_timescale(args.stream1, args.stream2, args.same_length)
    ELSE IF args.op = "get_stream_offset"
    THEN get_stream_offset(args.stream1, args.stream2)
    ELSE get_offset(args.data_1, args.data_2, args.sample_rate)

RegularizeReturn ==
    /\ pc = "start"
    /\ args.op = "regularize_stream_timescale"
    /\ Outcome.kind = "ok"
    /\ pc' = "done"
    /\ result' = Outcome.stream
    /\ UNCHANGED <<f, given, args, stack>>

RegularizeRaise ==
    /\ pc = "start"
    /\ args.op = "regularize_stream_timescale"
    /\ Outcome.kind # "ok"
    /\ pc' = "raised"
    /\ result' = Outcome.kind
    /\ UNCHANGED <<f, given, args, stack>>

StreamOffsetReturn ==
    /\ pc = "start"
    /\ args.op = "get_stream_offset"
    /\ Outcome.kind = "ok"
    /\ pc' = "done"
    /\ result' = Outcome.offset
    /\ UNCHANGED <<f, given, args, stack>>

StreamOffsetRaise ==
    /\ pc = "start"
    /\ args.op = "get_stream_offset"
    /\ Outcome.kind # "ok"
    /\ pc' = "raised"
    /\ result' = Outcome.kind
    /\ UNCHANGED <<f, given, args, stack>>

OffsetReturn ==
    /\ pc = "start"
    /\ args.op = "get_offset"
    /\ Outcome.kind = "ok"
    /\ pc' = "done"
    /\ result' = Outcome.offset
    /\ UNCHANGED <<f, given, args, stack>>

OffsetRaise ==
    /\ pc = "start"
    /\ args.op = "get_offset"
    /\ Outcome.kind # "ok"
    /\ pc' = "raised"
    /\ result' = Outcome.kind
    /\ UNCHANGED <<f, given, args, stack>>

AlignNext ==
    \/ RegularizeReturn \/ RegularizeRaise
    \/ StreamOffsetReturn \/ StreamOffsetRaise
    \/ OffsetReturn \/ OffsetRaise

SpecAlign == AlignInit /\ [][AlignNext]_vars

Called(op) == pc # "start" /\ args.op = op

\* C5: get_stream_offset on two identical non-empty streams returns 0.
StreamOffsetOfIdenticalIsZero ==
    (Called("get_stream_offset") /\ args.stream1 = args.stream2
                                 /\ args.stream1.data # <<>>
                                 /\ args.stream1.duration > 0)
        => (pc = "done" /\ result[1] = 0)

\* a spike: every value the baseline but one greater value, not the first
IsSpikeAt(xs, p) ==
    /\ Len(xs) >= 3
    /\ p \in 2..Len(xs)
    /\ \E b \in 0..2 :
         /\ xs[p] > b
         /\ \A i \in 1..Len(xs) : i # p => xs[i] = b

\* data_2 is data_1 delayed by k samples and the spike is still in it
IsDelayedSpike(data_1, data_2, k) ==
    /\ k \in 0..(Len(data_1) - 1)
    /\ data_2 = ShiftRight(data_1, k)
    /\ \E p \in 2..Len(data_1) : IsSpikeAt(data_1, p) /\ p + k <= Len(data_1)

\* C6: when data_2 is data_1 delayed by k samples and the signal is a flat
\* baseline with one spike that the delay keeps in range (the one feature,
\* so the correlation peak is unique), get_offset returns +k / sample_rate.
OffsetOfDelayedIsPositive ==
    \A k \in 0..MaxLen :
        (Called("get_offset") /\ IsDelayedSpike(args.data_1, args.data_2, k))
            => /\ pc = "done"
               /\ result[1] * args.sample_rate = k * result[2]
               /\ result[2] > 0

\* a spike delayed by two samples, at rate 200: offset 2/200
OffsetOfDelayedWitness ==
    /\ pc = "done"
    /\ args.op = "get_offset"
    /\ args.sample_rate = 200
    /\ IsDelayedSpike(args.data_1, args.data_2, 2)
    /\ result = <<2, 200>>

\* the index output element i was copied from (stream2's elements differ)
SourceIndex(i) ==
    CHOOSE j \in 0..(args.stream2.sample_count - 1) :
        result.data[i] = args.stream2.data[j + 1]

\* C7: with same_length set and positive counts and durations,
\* regularize_stream_timescale returns stream1.sample_count elements, each a
\* copy of an element of stream2 at an index within 0..sample_count-1, the
\* indices never decreasing.
RegularizeSameLength ==
    (Called("regularize_stream_timescale") /\ args.same_length
         /\ args.stream1.sample_count > 0 /\ args.stream1.duration > 0
         /\ args.stream2.sample_count > 0 /\ args.stream2.duration > 0)
        => /\ pc = "done"
           /\ Len(result.data) = args.stream1.sample_count
           /\ \A i \in 1..Len(result.data) :
                \E j \in 0..(args.stream2.sample_count - 1) :
                    result.data[i] = args.stream2.data[j + 1]
           /\ \A i \in 1..(Len(result.data) - 1) : SourceIndex(i) <= SourceIndex(i + 1)

\* three elements resampled from two, the last index clamped
RegularizeSameLengthWitness ==
    /\ Called("regularize_stream_timescale")
    /\ pc = "done"
    /\ args.same_length
    /\ args.stream1.sample_count = 3 /\ args.stream1.duration = 3
    /\ args.stream2.sample_count = 2 /\ args.stream2.duration = 1
    /\ result.data = << <<1, 0, 0>>, <<2, 0, 0>>, <<2, 0, 0>> >>

\* C8: offset estimation never returns a value when an input is empty:
\* get_offset with an empty array, get_stream_offset with an empty stream.
EmptyInputFails ==
    /\ (Called("get_offset") /\ (args.data_1 = <<>> \/ args.data_2 = <<>>))
           => pc = "raised"
    /\ (Called("get_stream_offset")
            /\ (args.stream1.data = <<>> \/ args.stream2.data = <<>>))
           => pc = "raised"

\* C9: the stream regularize_stream_timescale returns, with same_length set
\* or not, holds as many elements as its sample count says.
RegularizedCountsData ==
    (Called("regularize_stream_timescale") /\ pc = "done")
        => Len(result.data) = result.sample_count

====
